---- MODULE Spec2Model ----
(***************************************************************************)
(* Augmented Random Search trainer of bipedal_walker.ipynb: the running    *)
(* normalizer, the linear policy and the training loop, as state machines. *)
(* Floating-point values are modelled by exact rationals <<num, den>>.     *)
(***************************************************************************)
EXTENDS Integers, Sequences, FiniteSets, TLC

(***************************************************************************)
(* Exact rational arithmetic (numpy float arithmetic without rounding).    *)
(***************************************************************************)
Abs(a) == IF a < 0 THEN -a ELSE a

RECURSIVE Gcd(_, _)
Gcd(a, b) == IF b = 0 THEN a ELSE Gcd(b, a % b)

\* The rational a/b (b # 0) in lowest terms with a positive denominator.
Rat(a, b) ==
    LET g == Gcd(Abs(a), Abs(b))
        s == IF b < 0 THEN -1 ELSE 1
    IN  <<(s * a) \div g, (s * b) \div g>>

RInt(a) == <<a, 1>>
RAdd(p, q) == Rat(p[1] * q[2] + q[1] * p[2], p[2] * q[2])
RSub(p, q) == Rat(p[1] * q[2] - q[1] * p[2], p[2] * q[2])
RMul(p, q) == Rat(p[1] * q[1], p[2] * q[2])
RDiv(p, q) == Rat(p[1] * q[2], p[2] * q[1])
RLeq(p, q) == p[1] * q[2] <= q[1] * p[2]
RLt(p, q) == p[1] * q[2] < q[1] * p[2]
RMax(p, q) == IF RLeq(p, q) THEN q ELSE p
RMin(p, q) == IF RLeq(p, q) THEN p ELSE q

Zero == RInt(0)
One == RInt(1)

\* 0/0 stands for the float NaN.
NaN == <<0, 0>>
IsNaN(p) == p[2] = 0

(***************************************************************************)
(* Bounds of the model.                                                    *)
(***************************************************************************)
MaxObserve == 3       \* observe calls on a stand-alone Normalizer
MaxConfig == 4        \* largest num_steps + num_deltas + episode_length + limit
MaxExplore == 3       \* largest episode length of a stand-alone explore

\* Sizes of a stand-alone Normalizer; observation components, step rewards
\* and delta entries the environment and the random stream can produce.
InputSizes == {1, 2}
ObsVals == {<<0, 1>>, <<1, 10>>, <<-3, 1>>}
TrainObs == {<<1, 10>>}
RewardVals == {<<0, 1>>, <<5, 1>>}
ExploreRewards == {<<-5, 1>>, <<-1, 2>>, <<0, 1>>, <<5, 1>>}
DeltaVals == {-1, 1}

Vectors(d, S) == [1..d -> S]
Zeros(d) == [i \in 1..d |-> Zero]

VARIABLES
    pc,              \* position of the notebook's main code / train loop
    args,            \* arguments given to Hp(...)
    timestep_limit,  \* env.spec.timestep_limit (0 stands for None)
    hp,              \* the Hp object's fields
    normalizer,      \* ArsAgent.normalizer: n, mean, mean_diff, variance
    normalized,      \* result of the last Normalizer.normalize call
    normalize_n,     \* normalizer.n when normalize was last called
    theta,           \* Policy.theta
    step,            \* loop variable of train
    deltas, pos_rewards, neg_rewards, k,    \* locals of train
    rollouts, sigma_rewards,                \* arguments of the last Policy.update
    direction, state, done, num_plays, sum_rewards,   \* locals of explore
    trace,           \* (reward, done) pairs env.step returned in this explore
    env_steps,       \* number of env.step calls so far
    updates,         \* number of Policy.update calls so far
    order,           \* local of train: the selected delta indices
    REWARD_HISTORY

vars == <<pc, args, timestep_limit, hp, normalizer, normalized, normalize_n, theta, step,
          deltas, pos_rewards, neg_rewards, k, order, rollouts, sigma_rewards,
          direction, state, done, num_plays, sum_rewards, trace, env_steps,
          updates, REWARD_HISTORY>>

(***************************************************************************)
(* Normalizer                                                              *)
(***************************************************************************)
Epsilon == <<1, 100>>

NormalizerInit(num_inputs) ==
    [n |-> [i \in 1..num_inputs |-> 0],
     mean |-> Zeros(num_inputs),
     mean_diff |-> Zeros(num_inputs),
     variance |-> Zeros(num_inputs)]

NoClip(v, lo) == v

\* ndarray.clip(min=lo), elementwise
Clip(v, lo) == RMax(v, lo)

Observe(N, x) ==
    LET d == Len(N.n)
        n1 == [i \in 1..d |-> N.n[i] + 1]
        last_mean == N.mean
        mean1 == [i \in 1..d |->
                    RAdd(N.mean[i], RDiv(RSub(x[i], N.mean[i]), RInt(n1[i])))]
        mean_diff1 == [i \in 1..d |->
                    RAdd(N.mean_diff[i],
                         RMul(RSub(x[i], last_mean[i]), RSub(x[i], mean1[i])))]
    IN  [n |-> n1,
         mean |-> mean1,
         mean_diff |-> mean_diff1,
         variance |-> [i \in 1..d |->
                         Clip(RDiv(mean_diff1[i], RInt(n1[i])), Epsilon)]]

\* (inputs - mean) / sqrt(variance): component i is num / sqrt(std_sq), kept
\* as the pair; the division is by zero exactly when std_sq is zero.
Normalize(N, inputs) ==
    [i \in 1..Len(N.n) |->
        [num |-> RSub(inputs[i], N.mean[i]), std_sq |-> N.variance[i]]]

(***************************************************************************)
(* Hp                                                                      *)
(***************************************************************************)
NoHp == [num_steps |-> 0, episode_length |-> 0, num_deltas |-> 0,
         num_best_deltas |-> 0]

HpUnchecked(a) == TRUE

\* assert self.num_best_deltas <= self.num_deltas
HpValid(a) == a.num_best_deltas <= a.num_deltas

(***************************************************************************)
(* Policy.  theta is a 1 x 1 matrix.  A finite theta is the sum of the     *)
(* terms alpha * t[1] / (num_best_deltas * sqrt(t[2])) over its terms t,   *)
(* starting from zero; kind "nan" and "inf" are the float values.          *)
(***************************************************************************)
ThetaZero == [kind |-> "finite", terms |-> <<>>]
ThetaNaN == [kind |-> "nan", terms |-> <<>>]
ThetaInf == [kind |-> "inf", terms |-> <<>>]

RECURSIVE RolloutStep(_)
\* step += (r_pos - r_neg) * delta, over the rollouts
RolloutStep(rs) ==
    IF rs = <<>> THEN Zero
    ELSE RAdd(RMul(RSub(rs[1][1], rs[1][2]), RInt(rs[1][3])),
              RolloutStep(Tail(rs)))

\* theta += alpha / (num_best_deltas * sigma_rewards) * step, where sigma_sq
\* is the square of sigma_rewards
Update(th, rs, sigma_sq, num_best_deltas) ==
    LET stp == RolloutStep(rs) IN
    IF th.kind = "nan" \/ IsNaN(sigma_sq) THEN ThetaNaN
    ELSE IF num_best_deltas = 0 \/ sigma_sq = Zero
         THEN \* alpha / 0.0 is inf; inf * 0 is nan
              IF stp = Zero THEN ThetaNaN ELSE ThetaInf
    ELSE IF th.kind = "inf" THEN ThetaInf
    ELSE IF stp = Zero THEN th
    ELSE [kind |-> "finite", terms |-> Append(th.terms, <<stp, sigma_sq>>)]

(***************************************************************************)
(* ArsAgent.train: sigma_rewards and the selection of the rollouts         *)
(***************************************************************************)
RECURSIVE RSum(_)
RSum(xs) == IF xs = <<>> THEN Zero ELSE RAdd(xs[1], RSum(Tail(xs)))

\* Square of np.array(xs).std(): the population variance; nan when empty.
StdSq(xs) ==
    IF xs = <<>> THEN NaN
    ELSE LET cnt == RInt(Len(xs))
             m == RDiv(RSum(xs), cnt)
             sq == [i \in 1..Len(xs) |-> RMul(RSub(xs[i], m), RSub(xs[i], m))]
         IN  RDiv(RSum(sq), cnt)

\* scores[k] = max(r_pos, r_neg)
Scores(pos, neg) == [i \in 1..Len(pos) |-> RMax(pos[i], neg[i])]

InsertAtUnstable(srt, x, scores) ==
    LET notlarger == {j \in 1..Len(srt) : RLeq(scores[srt[j]], scores[x])}
    IN  IF notlarger = {} THEN Len(srt) + 1
        ELSE CHOOSE j \in notlarger : \A j2 \in notlarger : j <= j2

\* Where sorted(..., reverse=True) puts x among the keys already placed:
\* before the first key of strictly smaller score.
InsertAt(srt, x, scores) ==
    LET smaller == {j \in 1..Len(srt) : RLt(scores[srt[j]], scores[x])}
    IN  IF smaller = {} THEN Len(srt) + 1
        ELSE CHOOSE j \in smaller : \A j2 \in smaller : j <= j2

RECURSIVE SortedReverse(_, _)
\* sorted(keys, key=lambda x: scores[x], reverse=True)
SortedReverse(keys, scores) ==
    IF keys = <<>> THEN <<>>
    ELSE LET srt == SortedReverse(SubSeq(keys, 1, Len(keys) - 1), scores)
             x == keys[Len(keys)]
             at == InsertAt(srt, x, scores)
         IN  SubSeq(srt, 1, at - 1) \o <<x>> \o SubSeq(srt, at, Len(srt))

\* seq[:cnt]
Take(seq, cnt) == SubSeq(seq, 1, IF cnt < Len(seq) THEN cnt ELSE Len(seq))

Order(pos, neg, num_best_deltas) ==
    Take(SortedReverse([i \in 1..Len(pos) |-> i], Scores(pos, neg)),
         num_best_deltas)

Rollouts(pos, neg, ds, ord) ==
    [j \in 1..Len(ord) |-> <<pos[ord[j]], neg[ord[j]], ds[ord[j]]>>]

(***************************************************************************)
(* The notebook's main code: Hp(...), ArsAgent(...), agent.train()         *)
(***************************************************************************)
HpArgs ==
    [num_steps : 0..MaxConfig, episode_length : 0..MaxConfig,
     num_deltas : 0..MaxConfig, num_best_deltas : 0..MaxConfig]

Idle ==
    /\ normalized = <<>> /\ normalize_n = <<>>
    /\ theta = ThetaZero
    /\ step = 0
    /\ deltas = <<>> /\ pos_rewards = <<>> /\ neg_rewards = <<>> /\ k = 0
    /\ order = <<>> /\ rollouts = <<>> /\ sigma_rewards = Zero
    /\ direction = "none" /\ state = <<>> /\ done = FALSE
    /\ num_plays = 0 /\ sum_rewards = Zero
    /\ trace = <<>>
    /\ env_steps = 0
    /\ updates = 0
    /\ REWARD_HISTORY = <<>>

Init ==
    /\ pc = "main"
    /\ args \in HpArgs
    /\ timestep_limit \in 0..MaxConfig
    /\ args.num_steps + args.num_deltas + args.episode_length
          + timestep_limit <= MaxConfig
    /\ hp = NoHp
    /\ normalizer = NormalizerInit(0)
    /\ Idle

trainVars == <<step, deltas, pos_rewards, neg_rewards, k, order, rollouts,
               sigma_rewards, updates, REWARD_HISTORY>>
exploreVars == <<direction, state, done, num_plays, sum_rewards, trace,
                 env_steps>>

\* Hp.__init__: the assert raises before the object exists
HpInit ==
    /\ pc = "main"
    /\ IF HpValid(args)
       THEN /\ hp' = args
            /\ pc' = "agent"
       ELSE /\ hp' = hp
            /\ pc' = "assert_failed"
    /\ UNCHANGED <<args, timestep_limit, normalizer, normalized, normalize_n, theta>>
    /\ UNCHANGED trainVars
    /\ UNCHANGED exploreVars

\* self.env.spec.timestep_limit or self.hp.episode_length
EpisodeLength(limit, configured) == IF limit # 0 THEN limit ELSE configured

\* ArsAgent.__init__ for an environment of observation size 1
ArsAgentInit ==
    /\ pc = "agent"
    /\ hp' = [hp EXCEPT !.episode_length =
                            EpisodeLength(timestep_limit, hp.episode_length)]
    /\ normalizer' = NormalizerInit(1)
    /\ theta' = ThetaZero
    /\ pc' = "train"
    /\ UNCHANGED <<args, timestep_limit, normalized, normalize_n>>
    /\ UNCHANGED trainVars
    /\ UNCHANGED exploreVars

\* for step in range(num_steps): sample the deltas, zero the reward lists
TrainIteration ==
    /\ pc = "train"
    /\ step < hp.num_steps
    /\ deltas' \in [1..hp.num_deltas -> DeltaVals]
    /\ pos_rewards' = [i \in 1..hp.num_deltas |-> Zero]
    /\ neg_rewards' = [i \in 1..hp.num_deltas |-> Zero]
    /\ k' = 1
    /\ pc' = IF hp.num_deltas > 0 THEN "pos" ELSE "update"
    /\ UNCHANGED <<args, timestep_limit, hp, normalizer, normalized, normalize_n, theta,
                   step, order, rollouts, sigma_rewards, updates,
                   REWARD_HISTORY>>
    /\ UNCHANGED exploreVars

TrainReturn ==
    /\ pc = "train"
    /\ step >= hp.num_steps
    /\ pc' = "finished"
    /\ UNCHANGED <<args, timestep_limit, hp, normalizer, normalized, normalize_n, theta>>
    /\ UNCHANGED trainVars
    /\ UNCHANGED exploreVars

\* The direction explore is called with at each call site of train
CallDirection(at) ==
    IF at = "pos" THEN "+" ELSE IF at = "neg" THEN "-" ELSE "none"

\* explore: state = self.env.reset(), which may raise
ExploreReset(OS) ==
    /\ pc \in {"pos", "neg", "eval"}
    /\ direction' = CallDirection(pc)
    /\ \/ /\ state' \in Vectors(Len(normalizer.n), OS)
          /\ pc' = "explore"
       \/ /\ state' = state
          /\ pc' = "aborted"
    /\ done' = FALSE
    /\ num_plays' = 0
    /\ sum_rewards' = Zero
    /\ trace' = <<>>
    /\ UNCHANGED <<args, timestep_limit, hp, normalizer, normalized, normalize_n, theta,
                   env_steps>>
    /\ UNCHANGED trainVars

Unclamped(reward) == reward

\* reward = max(min(reward, 1), -1)
Clamp(reward) == RMax(RMin(reward, One), RInt(-1))

ExploreObserveDirected(N, st, dir) ==
    IF dir = "none" THEN N ELSE Observe(N, st)

\* self.normalizer.observe(state), whatever the direction of the rollout
ExploreObserve(N, st, dir) == Observe(N, st)

\* One pass of the while loop; env.step may raise.  The trace of the
\* environment's answers is kept when log is set.
ExploreStep(OS, RS, log) ==
    /\ pc = "explore"
    /\ ~done /\ num_plays < hp.episode_length
    /\ normalizer' = ExploreObserve(normalizer, state, direction)
    /\ normalized' = Normalize(normalizer', state)
    /\ normalize_n' = normalizer'.n
    /\ env_steps' = env_steps + 1
    /\ \/ \E obs \in Vectors(Len(normalizer.n), OS), reward \in RS,
             d \in BOOLEAN :
             /\ state' = obs
             /\ done' = d
             /\ sum_rewards' = RAdd(sum_rewards, Clamp(reward))
             /\ num_plays' = num_plays + 1
             /\ trace' = IF log THEN Append(trace, <<reward, d>>) ELSE trace
             /\ pc' = pc
       \/ /\ state' = normalized'
          /\ pc' = "aborted"
          /\ UNCHANGED <<done, sum_rewards, num_plays, trace>>
    /\ UNCHANGED <<args, timestep_limit, hp, theta, direction>>
    /\ UNCHANGED trainVars

AfterNegEager(kk, num_deltas) == "update"

\* REWARD_HISTORY.append(reward_evaluation)
HistoryReplace(history, reward_evaluation) == <<reward_evaluation>>

HistoryAppend(history, reward_evaluation) == Append(history, reward_evaluation)

\* Where train continues after explore(direction='-') of delta k
AfterNeg(kk, num_deltas) == IF kk < num_deltas THEN "pos" ELSE "update"

\* return sum_rewards, to the call site
ExploreReturn ==
    /\ pc = "explore"
    /\ ~(~done /\ num_plays < hp.episode_length)
    /\ \/ /\ direction = "+"
          /\ pos_rewards' = [pos_rewards EXCEPT ![k] = sum_rewards]
          /\ pc' = "neg"
          /\ UNCHANGED <<neg_rewards, k, step, REWARD_HISTORY>>
       \/ /\ direction = "-"
          /\ neg_rewards' = [neg_rewards EXCEPT ![k] = sum_rewards]
          /\ k' = k + 1
          /\ pc' = AfterNeg(k, hp.num_deltas)
          /\ UNCHANGED <<pos_rewards, step, REWARD_HISTORY>>
       \/ /\ direction = "none"
          /\ REWARD_HISTORY' = HistoryAppend(REWARD_HISTORY, sum_rewards)
          /\ step' = step + 1
          /\ pc' = "train"
          /\ UNCHANGED <<pos_rewards, neg_rewards, k>>
    /\ UNCHANGED <<args, timestep_limit, hp, normalizer, normalized, normalize_n, theta,
                   deltas, order, rollouts, sigma_rewards, updates>>
    /\ UNCHANGED exploreVars

\* sigma_rewards, scores, order, rollouts and self.policy.update(...)
TrainUpdate ==
    /\ pc = "update"
    /\ sigma_rewards' = StdSq(pos_rewards \o neg_rewards)
    /\ order' = Order(pos_rewards, neg_rewards, hp.num_best_deltas)
    /\ rollouts' = Rollouts(pos_rewards, neg_rewards, deltas, order')
    /\ theta' = Update(theta, rollouts', sigma_rewards', hp.num_best_deltas)
    /\ updates' = updates + 1
    /\ pc' = "eval"
    /\ UNCHANGED <<args, timestep_limit, hp, normalizer, normalized, normalize_n, step,
                   deltas, pos_rewards, neg_rewards, k, REWARD_HISTORY>>
    /\ UNCHANGED exploreVars

Next ==
    \/ HpInit
    \/ ArsAgentInit
    \/ TrainIteration
    \/ TrainReturn
    \/ ExploreReset(TrainObs)
    \/ ExploreStep(TrainObs, RewardVals, FALSE)
    \/ ExploreReturn
    \/ TrainUpdate

Spec == Init /\ [][Next]_vars

(***************************************************************************)
(* A stand-alone Normalizer: observe and normalize called in any order.    *)
(***************************************************************************)
InitNorm ==
    /\ pc = "normalizer"
    /\ args = NoHp /\ hp = NoHp /\ timestep_limit = 0
    /\ \E num_inputs \in InputSizes : normalizer = NormalizerInit(num_inputs)
    /\ Idle

NormObserve ==
    /\ pc = "normalizer"
    /\ normalizer.n[1] < MaxObserve
    /\ \E x \in Vectors(Len(normalizer.n), ObsVals) :
          normalizer' = Observe(normalizer, x)
    /\ UNCHANGED <<pc, args, timestep_limit, hp, normalized, normalize_n, theta>>
    /\ UNCHANGED trainVars
    /\ UNCHANGED exploreVars

NormNormalize ==
    /\ pc = "normalizer"
    /\ \E x \in Vectors(Len(normalizer.n), ObsVals) :
          normalized' = Normalize(normalizer, x)
    /\ normalize_n' = normalizer.n
    /\ UNCHANGED <<pc, args, timestep_limit, hp, normalizer, theta>>
    /\ UNCHANGED trainVars
    /\ UNCHANGED exploreVars

NextNorm == NormObserve \/ NormNormalize

SpecNorm == InitNorm /\ [][NextNorm]_vars

(***************************************************************************)
(* One iteration of train on a fresh agent with one delta, against an      *)
(* environment with the wider reward set, the environment's answers kept   *)
(* in trace: the state after the first TrainIteration of such a run.       *)
(***************************************************************************)
InitExplore ==
    /\ pc = "pos"
    /\ args \in [num_steps : {1}, episode_length : 0..MaxExplore,
                 num_deltas : {1}, num_best_deltas : {1}]
    /\ timestep_limit = 0
    /\ hp = args
    /\ normalizer = NormalizerInit(1)
    /\ normalized = <<>> /\ normalize_n = <<>>
    /\ theta = ThetaZero
    /\ step = 0
    /\ deltas \in [1..1 -> DeltaVals]
    /\ pos_rewards = <<Zero>> /\ neg_rewards = <<Zero>> /\ k = 1
    /\ order = <<>> /\ rollouts = <<>> /\ sigma_rewards = Zero
    /\ direction = "none" /\ state = <<>> /\ done = FALSE
    /\ num_plays = 0 /\ sum_rewards = Zero
    /\ trace = <<>>
    /\ env_steps = 0
    /\ updates = 0
    /\ REWARD_HISTORY = <<>>

NextExplore ==
    \/ ExploreReset(TrainObs)
    \/ ExploreStep(TrainObs, ExploreRewards, TRUE)
    \/ ExploreReturn
    \/ TrainUpdate

SpecExplore == InitExplore /\ [][NextExplore]_vars

(***************************************************************************)
(* Properties                                                              *)
(***************************************************************************)
Dims == 1..Len(normalizer.n)
Min(a, b) == IF a < b THEN a ELSE b

\* C1: after every observe call on a normalizer that started fresh, every
\* component of variance is at least 0.01.
C1_VarianceAtLeastEpsilon ==
    \A i \in Dims :
        normalizer.n[i] >= 1 =>
            normalizer.variance[i][1] * 100 >= normalizer.variance[i][2]

\* Two observations whose spread is below the floor: mean_diff / n is
\* positive and smaller than 0.01, and variance is the floor.
C1_Witness ==
    /\ pc = "normalizer"
    /\ \E i \in Dims :
          /\ normalizer.n[i] = 2
          /\ normalizer.mean_diff[i] = <<1, 200>>
          /\ normalizer.variance[i] = <<1, 100>>

\* C7 (as claimed): no normalize call divides by zero, whatever the state of
\* the normalizer, a fresh one included.
C7_NormalizeNeverDividesByZero ==
    \A i \in 1..Len(normalized) : normalized[i].std_sq[1] # 0

\* C2 (as claimed): in an iteration whose directed rollouts, of at least
\* one step each, all return the same reward, sigma_rewards is zero and the
\* update leaves the weights as they were.
C2_ZeroSigmaLeavesWeights ==
    [][(/\ pc = "update" /\ pc' = "eval"
        /\ hp.num_best_deltas >= 1 /\ hp.episode_length >= 1
        /\ \A i \in 1..hp.num_deltas :
              pos_rewards[i] = pos_rewards[1] /\ neg_rewards[i] = pos_rewards[1])
          => (sigma_rewards' = <<0, 1>> /\ theta' = theta)]_vars

\* The sum of the clamped rewards of a trace, the clamp written out by cases.
RECURSIVE ClampedTotal(_)
ClampedTotal(tr) ==
    IF tr = <<>> THEN <<0, 1>>
    ELSE LET r == tr[1][1]
             c == IF r[1] > r[2] THEN <<1, 1>>
                  ELSE IF r[1] < -r[2] THEN <<-1, 1>>
                  ELSE r
         IN  RAdd(c, ClampedTotal(Tail(tr)))

\* The value explore hands back to its call site, read in the state after
\* the return.
Returned(dir, pos, neg, hist, kk) ==
    IF dir = "+" THEN pos[kk]
    ELSE IF dir = "-" THEN neg[kk]
    ELSE hist[Len(hist)]

\* C3: explore steps the environment until it signals done or
\* episode_length steps are taken, whichever is first, and returns the sum
\* of the step rewards clamped to [-1, 1]; the total lies in
\* [-episode_length, episode_length].
C3_ExploreReturnsClampedSum ==
    [][(pc = "explore" /\ pc' \notin {"explore", "aborted"}) =>
          LET ret == Returned(direction, pos_rewards', neg_rewards',
                              REWARD_HISTORY', k)
              len == Len(trace)
          IN  /\ ret = ClampedTotal(trace)
              /\ len <= hp.episode_length
              /\ \A i \in 1..(len - 1) : trace[i][2] = FALSE
              /\ len = hp.episode_length \/ (len > 0 /\ trace[len][2] = TRUE)
              /\ ret[1] <= hp.episode_length * ret[2]
              /\ ret[1] >= -(hp.episode_length * ret[2])]_vars

\* A Plus rollout that ended on done at its first step, with step reward 5.0
\* and two steps allowed, returned 1.0.
C3_Witness ==
    /\ pc = "neg"
    /\ hp.episode_length >= 2
    /\ trace = << <<(<<5, 1>>), TRUE>> >>
    /\ pos_rewards[1] = <<1, 1>>

\* C4 (as claimed): the step cap the trainer uses is the smaller of the
\* configured episode_length and the environment's limit, and the
\* configured value when the environment has no limit.
C4_CapIsSmallerOfConfiguredAndLimit ==
    (pc \notin {"main", "agent", "assert_failed"} /\ args.episode_length >= 1) =>
        hp.episode_length =
            IF timestep_limit = 0 THEN args.episode_length
            ELSE Min(args.episode_length, timestep_limit)

\* Where the update of the iteration under way stands: not yet made before
\* and during the directed rollouts, made once the evaluation rollout is due.
UpdatesDue ==
    IF pc \in {"pos", "neg", "update", "train", "finished"} THEN step
    ELSE IF pc = "eval" THEN step + 1
    ELSE IF pc \in {"explore", "aborted"} /\ direction = "none" THEN step + 1
    ELSE step

\* C5: the reward history has one entry per completed iteration: only ever
\* extended, by one entry at the end of an iteration's evaluation rollout
\* and after that iteration's update; num_steps entries when train returns;
\* the entries of the completed iterations when the run is aborted.
C5_HistoryOneEntryPerIteration ==
    /\ REWARD_HISTORY = <<>>
    /\ [][/\ Len(REWARD_HISTORY') = step'
          /\ step' <= hp'.num_steps
          /\ pc' = "finished" => Len(REWARD_HISTORY') = hp'.num_steps
          /\ \/ REWARD_HISTORY' = REWARD_HISTORY /\ step' = step
             \/ /\ Len(REWARD_HISTORY') = Len(REWARD_HISTORY) + 1
                /\ SubSeq(REWARD_HISTORY', 1, Len(REWARD_HISTORY))
                      = REWARD_HISTORY
                /\ step' = step + 1
                /\ pc = "explore" /\ direction = "none"
                /\ updates = step + 1]_vars

\* A run of two iterations aborted in its second iteration, the first
\* iteration's entry kept.
C5_Witness ==
    /\ pc = "aborted"
    /\ hp.num_steps = 2
    /\ step = 1
    /\ Len(REWARD_HISTORY) = 1

\* C6: Hp(...) raises when num_best_deltas > num_deltas, and then nothing
\* is built or run; it succeeds otherwise, with the fields as given.
C6_HpValidatedAtConstruction ==
    /\ pc = "main" \/
          (pc = "assert_failed" <=> args.num_best_deltas > args.num_deltas)
    /\ args.num_best_deltas > args.num_deltas =>
          /\ pc \in {"main", "assert_failed"}
          /\ hp = NoHp
          /\ env_steps = 0 /\ updates = 0
          /\ theta = ThetaZero /\ REWARD_HISTORY = <<>>
    /\ (pc # "main" /\ args.num_best_deltas <= args.num_deltas) =>
          /\ hp.num_deltas = args.num_deltas
          /\ hp.num_best_deltas = args.num_best_deltas
          /\ hp.num_steps = args.num_steps

C6_Witness ==
    /\ pc = "assert_failed"
    /\ args.num_deltas = 1 /\ args.num_best_deltas = 2
    /\ args.num_steps >= 1

\* Score of delta index i and the order the claim gives: larger score
\* first, equal scores by ascending index.
ScoreOf(i) ==
    IF RLeq(pos_rewards[i], neg_rewards[i]) THEN neg_rewards[i]
    ELSE pos_rewards[i]
Before(a, b) ==
    \/ RLt(ScoreOf(b), ScoreOf(a))
    \/ ScoreOf(a) = ScoreOf(b) /\ a < b

\* C8: the rollouts given to Policy.update are the triples (pos_rewards[k],
\* neg_rewards[k], deltas[k]) of the num_best_deltas indices of largest
\* score max(pos, neg), larger score first and equal scores in ascending
\* index order, each index at most once.
C8_RolloutsAreTopScores ==
    updates = step + 1 =>
        /\ Len(order) = Min(hp.num_best_deltas, hp.num_deltas)
        /\ Len(rollouts) = Len(order)
        /\ \A j \in 1..Len(order) :
              /\ order[j] \in 1..hp.num_deltas
              /\ rollouts[j] = <<pos_rewards[order[j]], neg_rewards[order[j]],
                                 deltas[order[j]]>>
        /\ \A j1, j2 \in 1..Len(order) :
              j1 < j2 => Before(order[j1], order[j2])
        /\ \A u \in 1..hp.num_deltas :
              (\A j \in 1..Len(order) : order[j] # u) =>
                  \A j \in 1..Len(order) : Before(order[j], u)

\* Two deltas of equal score and different entries, one of them selected:
\* the first.
C8_Witness ==
    /\ updates = step + 1
    /\ hp.num_deltas = 2 /\ hp.num_best_deltas = 1
    /\ ScoreOf(1) = ScoreOf(2)
    /\ pos_rewards[1] # pos_rewards[2]
    /\ deltas[1] # deltas[2]
    /\ rollouts = << <<pos_rewards[1], neg_rewards[1], deltas[1]>> >>

\* C9: theta changes only in Policy.update, which train calls once per
\* iteration, after the 2 * num_deltas directed rollouts and before the
\* evaluation rollout.
C9_ThetaChangesOnlyInUpdate ==
    [][/\ theta' # theta => (pc = "update" /\ updates' = updates + 1)
       /\ updates' # updates =>
             /\ updates' = updates + 1
             /\ pc = "update" /\ pc' = "eval"
             /\ k = hp.num_deltas + 1
             /\ updates = step
       /\ pc' \notin {"main", "agent", "assert_failed"} =>
             updates' = UpdatesDue']_vars

\* The evaluation rollout of an iteration with two deltas is due, with
\* weights the update has moved.
C9_Witness ==
    /\ pc = "eval"
    /\ hp.num_deltas = 2
    /\ updates = 1
    /\ theta.kind = "finite" /\ theta.terms # <<>>

\* C10: every env.step of every rollout follows one observe and one
\* normalize on the one normalizer: each n[i] is the number of env.step
\* calls so far, n never decreases, and normalize is never called at n = 0.
C10_CountIsEnvSteps ==
    [][/\ \A i \in 1..Len(normalizer'.n) :
             /\ normalizer'.n[i] = env_steps'
             /\ i \in Dims => normalizer'.n[i] >= normalizer.n[i]
       /\ env_steps' # env_steps =>
             /\ env_steps' = env_steps + 1
             /\ normalize_n' = normalizer'.n
       /\ \A i \in 1..Len(normalize_n') : normalize_n'[i] >= 1
       /\ (env_steps' = env_steps /\ pc # "agent") =>
             normalizer' = normalizer]_vars

\* The evaluation rollout of the second iteration has taken a step: the
\* count spans the rollouts of both iterations.
C10_Witness ==
    /\ pc = "explore" /\ direction = "none"
    /\ step = 1
    /\ num_plays = 1
    /\ normalizer.n[1] = 6
    /\ env_steps = 6
====
